---- MODULE Spec2Model ----
(***************************************************************************)
(* Program repository and execution manager of niryo_robot_programs_      *)
(* manager_v2 (ProgramsManager.py).                                        *)
(*                                                                         *)
(* Two halves share the module:                                            *)
(*   - the execution half: execute_from_id / execute_from_code /           *)
(*     stop_execution, the threads they spawn, the start handshake of      *)
(*     __execute, the temporary file of execute_from_code and the runner;  *)
(*   - the storage half: the metadata store, the two file stores, the      *)
(*     in-memory cache, __sync_db_with_system and create / update /        *)
(*     delete, each executed one store call at a time.                     *)
(*                                                                         *)
(* A third part models niryo_robot_reports: the log aggregation of         *)
(* ReportHandler.add_log and the credentials of the micro services of      *)
(* CloudAPI.                                                               *)
(*                                                                         *)
(* PythonRunner, ProgramsFileManager and the database are collaborators    *)
(* whose code is not part of the sources at hand; their primitives follow  *)
(* the contracts of spec.md (sections 4.2, 4.3 and 6).                     *)
(***************************************************************************)
EXTENDS Integers, Sequences, FiniteSets, TLC

(***************************************************************************)
(* Bounds of the model.                                                    *)
(***************************************************************************)
\* Number of execute_from_id / execute_from_code invocations in a behaviour.
MaxCalls == 2
\* Number of output lines an execution context produces at most.
MaxOutput == 1
\* Number of program ids (uuid4 values and externally placed file names).
MaxIds == 2
\* Number of add_log calls in a behaviour.
MaxLogs == 3
\* Number of requests the micro services post in a behaviour.
MaxPosts == 2

Calls == 1..MaxCalls
\* The program ids: uuid4 values and the names of externally placed files.
ProgramIds == {"p" \o ToString(i) : i \in 1..MaxIds}
\* The value of runner.current and of busyAt[c] when there is no such call.
NoCall == CHOOSE n \in 0..MaxCalls : n \notin Calls

VARIABLES
    \* ---- execution half
    callKind,    \* call -> "none" | "id" | "code": which entry point was invoked
    callProgram, \* call -> program_id given to execute_from_id ("" for the other calls)
    callPc,      \* call -> "idle" | "waiting" | "returned": position of the caller in __execute
    callResult,  \* call -> "none" | "ok" | "AlreadyRunning": what the caller got back
    busyAt,      \* call -> the call whose session was Running when this call was issued (history)
    thr,         \* call -> position of the thread spawned by __execute
    outcome,     \* call -> what runner.start / temporary_file did for the spawned thread
    tmp,         \* call -> "none" | "present" | "deleted": temporary body file of execute_from_code
    ctx,         \* call -> "none" | "alive" | "exited": execution context (process) launched for the call
    runner,      \* PythonRunner: [state, exit_status, current, output]
    stopReq,     \* a termination request is pending on the running context
    \* ---- storage half
    database,       \* metadata store: id -> [name, description, has_blockly]
    python_files,   \* script file store: id -> body
    blockly_files,  \* visual file store: id -> body
    programs,       \* ProgramsManager.__programs: id -> ProgramDict
    constructed,    \* __init__ has run
    op,             \* the manager call in progress or last returned
    warnings,       \* what the reconciliation of the last __init__ logged (rospy.logwarn)
    suspended,      \* the manager call of a second caller thread, while that thread does not run
    \* ---- niryo_robot_reports
    reportHandler,  \* ReportHandler: [logs, file, added]
    cloud           \* CloudAPI: [sharing_allowed, heap, microservices, set, posted, sent]

execVars == <<callKind, callProgram, callPc, callResult, busyAt, thr, outcome, tmp, ctx, runner, stopReq>>
storeVars == <<database, python_files, blockly_files, programs, constructed, op, warnings, suspended>>
reportVars == <<reportHandler, cloud>>
vars == <<callKind, callProgram, callPc, callResult, busyAt, thr, outcome, tmp, ctx, runner, stopReq,
          database, python_files, blockly_files, programs, constructed, op, warnings, suspended,
          reportHandler, cloud>>

(***************************************************************************)
(* Small helpers on finite maps.                                           *)
(***************************************************************************)
EmptyMap == [x \in {} |-> TRUE]
MapPut(f, k, v) == [x \in (DOMAIN f) \cup {k} |-> IF x = k THEN v ELSE f[x]]
MapDel(f, k) == [x \in (DOMAIN f) \ {k} |-> f[x]]

(***************************************************************************)
(*                          EXECUTION HALF                                 *)
(***************************************************************************)

\* exit_status values: None before any run, 0 on success, a non-zero status
\* for a crash or a launch failure, a cancelled status after stop.
ExitNone == "None"
ExitOk == "0"
ExitFail == "1"
ExitCancelled == "-15"

\* PythonRunner.is_running (spec.md 4.3): true in the Starting/Running window.
\* start is one guarded transition of the runner, so Starting is interior to it.
RunnerIsRunning == runner.state = "Running"

\* A start that launches whatever the state of the runner.
MutRunnerNeverRejects == FALSE
\* PythonRunner.start rejects with AlreadyRunning when the state is not Idle
\* (a terminal state counts as Idle: it auto-resets on the next start).
RunnerRejectsStart == runner.state = "Running"

\* ProgramsManager.execution_is_running
execution_is_running == RunnerIsRunning

\* A success accessor that asks only whether the run did not fail.
MutSuccessIfNotFailed == runner.exit_status # ExitFail
\* A success accessor that asks whether an exit status was recorded at all.
MutSuccessIfAnyStatus == runner.exit_status # ExitNone
\* ProgramsManager.execution_is_success
execution_is_success == runner.exit_status = ExitOk

\* A wait loop that only watches the running flag.
MutHandshakeRunningOnly == execution_is_running
\* The condition that ends the wait loop of __execute:
\*   while not self.execution_is_running and self.__python_runner.exit_status is None
HandshakeDone == execution_is_running \/ runner.exit_status # ExitNone

InitExecVars ==
    /\ callKind = [c \in Calls |-> "none"]
    /\ callProgram = [c \in Calls |-> ""]
    /\ callPc = [c \in Calls |-> "idle"]
    /\ callResult = [c \in Calls |-> "none"]
    /\ busyAt = [c \in Calls |-> NoCall]
    /\ thr = [c \in Calls |-> "none"]
    /\ outcome = [c \in Calls |-> "none"]
    /\ tmp = [c \in Calls |-> "none"]
    /\ ctx = [c \in Calls |-> "none"]
    /\ runner = [state |-> "Idle", exit_status |-> ExitNone, current |-> NoCall, output |-> 0]
    /\ stopReq = FALSE

\* The ids execute_from_id is called with: the id of every stored script file,
\* and one id that has no script file (all such ids are treated alike).
ExecutableIds ==
    LET stored == DOMAIN python_files
        absent == ProgramIds \ stored
    IN stored \cup (IF absent = {} THEN {} ELSE {CHOOSE id \in absent : TRUE})

\* Calls are numbered in the order they are issued.
NextCall(c) == callPc[c] = "idle" /\ \A d \in Calls : d < c => callPc[d] # "idle"

\* __execute, line 133: the thread is spawned; the caller enters the wait loop.
Execute(c, kind) ==
    /\ NextCall(c)
    /\ callKind' = [callKind EXCEPT ![c] = kind]
    /\ callPc' = [callPc EXCEPT ![c] = "waiting"]
    /\ thr' = [thr EXCEPT ![c] = "spawned"]
    /\ busyAt' = [busyAt EXCEPT ![c] = IF RunnerIsRunning THEN runner.current ELSE NoCall]
    /\ UNCHANGED <<callResult, outcome, tmp, ctx, runner, stopReq>>

\* An execute_from_id that copies the body into a temporary file first.
MutExecuteFromIdCopiesBody(c) ==
    /\ NextCall(c)
    /\ callKind' = [callKind EXCEPT ![c] = "id"]
    /\ callPc' = [callPc EXCEPT ![c] = "waiting"]
    /\ thr' = [thr EXCEPT ![c] = "spawned"]
    /\ busyAt' = [busyAt EXCEPT ![c] = IF RunnerIsRunning THEN runner.current ELSE NoCall]
    /\ tmp' = [tmp EXCEPT ![c] = "present"]
    /\ \E program_id \in ExecutableIds :
           callProgram' = [callProgram EXCEPT ![c] = program_id]
    /\ UNCHANGED <<callResult, outcome, ctx, runner, stopReq>>
    /\ UNCHANGED <<storeVars, reportVars>>
\* execute_from_id: the thread's target is runner.start on the path of the
\* script file of program_id, which get_file_path computes from the id.
ExecuteFromId(c) ==
    /\ Execute(c, "id")
    /\ \E program_id \in ExecutableIds :
           callProgram' = [callProgram EXCEPT ![c] = program_id]
    /\ UNCHANGED <<storeVars, reportVars>>

\* execute_from_code: the thread's target is execute_with_context.
ExecuteFromCode(c) == Execute(c, "code") /\ UNCHANGED callProgram /\ UNCHANGED <<storeVars, reportVars>>

\* __execute, lines 135-136: the wait loop ends and the call returns.  Nothing
\* the spawned thread raises reaches the caller, so the call returns normally.
ExecuteReturn(c) ==
    /\ callPc[c] = "waiting"
    /\ HandshakeDone
    /\ callPc' = [callPc EXCEPT ![c] = "returned"]
    /\ callResult' = [callResult EXCEPT ![c] = "ok"]
    /\ UNCHANGED <<callKind, callProgram, busyAt, thr, outcome, tmp, ctx, runner, stopReq>>
    /\ UNCHANGED <<storeVars, reportVars>>

\* temporary_file(python_code).__enter__ in the spawned thread: the file is
\* created, or the store fails and the exception ends the thread.
TmpCreate(c) ==
    /\ callKind[c] = "code"
    /\ thr[c] = "spawned"
    /\ \/ /\ tmp' = [tmp EXCEPT ![c] = "present"]
          /\ thr' = [thr EXCEPT ![c] = "in_scope"]
          /\ UNCHANGED outcome
       \/ /\ outcome' = [outcome EXCEPT ![c] = "tmp_failed"]
          /\ thr' = [thr EXCEPT ![c] = "done"]
          /\ UNCHANGED tmp
    /\ UNCHANGED <<callKind, callProgram, callPc, callResult, busyAt, ctx, runner, stopReq>>
    /\ UNCHANGED <<storeVars, reportVars>>

\* Where the thread of call c stands right before it calls runner.start, and
\* where it stands right after start has returned or raised.
AtStart(c) == IF callKind[c] = "code" THEN thr[c] = "in_scope" ELSE thr[c] = "spawned"
AfterStart(c) == IF callKind[c] = "code" THEN "leaving" ELSE "done"

\* PythonRunner.start(path), called by the spawned thread.  It returns once the
\* execution context has begun, not once it has finished.
RunnerStart(c) ==
    /\ callKind[c] # "none"
    /\ AtStart(c)
    /\ thr' = [thr EXCEPT ![c] = AfterStart(c)]
    /\ IF RunnerRejectsStart
       THEN /\ outcome' = [outcome EXCEPT ![c] = "rejected"]
            /\ UNCHANGED <<ctx, runner, stopReq>>
       ELSE \/ /\ outcome' = [outcome EXCEPT ![c] = "accepted"]
               /\ ctx' = [ctx EXCEPT ![c] = "alive"]
               /\ runner' = [runner EXCEPT !.state = "Running", !.current = c, !.output = 0]
               /\ stopReq' = FALSE
            \/ /\ outcome' = [outcome EXCEPT ![c] = "launch_failed"]
               /\ runner' = [runner EXCEPT !.state = "Failed", !.exit_status = ExitFail,
                                           !.current = c, !.output = 0]
               /\ UNCHANGED <<ctx, stopReq>>
    /\ UNCHANGED <<callKind, callProgram, callPc, callResult, busyAt, tmp>>
    /\ UNCHANGED <<storeVars, reportVars>>

\* A with block that deletes the file only when start returned normally.
MutTmpReleaseLeaksOnError(c) ==
    /\ callKind[c] = "code"
    /\ thr[c] = "leaving"
    /\ tmp' = [tmp EXCEPT ![c] = IF outcome[c] = "accepted" THEN "deleted" ELSE @]
    /\ thr' = [thr EXCEPT ![c] = "done"]
    /\ UNCHANGED <<callKind, callProgram, callPc, callResult, busyAt, outcome, ctx, runner, stopReq>>
    /\ UNCHANGED <<storeVars, reportVars>>
\* A with block whose exit clears the whole temporary directory.
MutTmpReleaseClearsDirectory(c) ==
    /\ callKind[c] = "code"
    /\ thr[c] = "leaving"
    /\ tmp' = [d \in Calls |-> IF tmp[d] = "present" THEN "deleted" ELSE tmp[d]]
    /\ thr' = [thr EXCEPT ![c] = "done"]
    /\ UNCHANGED <<callKind, callProgram, callPc, callResult, busyAt, outcome, ctx, runner, stopReq>>
    /\ UNCHANGED <<storeVars, reportVars>>
\* temporary_file(python_code).__exit__: the with block of execute_with_context
\* is left (start returned or raised) and the temporary file is deleted.
TmpRelease(c) ==
    /\ callKind[c] = "code"
    /\ thr[c] = "leaving"
    /\ tmp' = [tmp EXCEPT ![c] = "deleted"]
    /\ thr' = [thr EXCEPT ![c] = "done"]
    /\ UNCHANGED <<callKind, callProgram, callPc, callResult, busyAt, outcome, ctx, runner, stopReq>>
    /\ UNCHANGED <<storeVars, reportVars>>

\* The running execution context produces a line of output.
CtxOutput(c) ==
    /\ ctx[c] = "alive"
    /\ runner.current = c
    /\ runner.output < MaxOutput
    /\ runner' = [runner EXCEPT !.output = @ + 1]
    /\ UNCHANGED <<callKind, callProgram, callPc, callResult, busyAt, thr, outcome, tmp, ctx, stopReq>>
    /\ UNCHANGED <<storeVars, reportVars>>

\* The execution context terminates: naturally (status 0), by a crash, or
\* because stop asked for it.  The runner records the exit status then.
CtxExit(c) ==
    /\ ctx[c] = "alive"
    /\ ctx' = [ctx EXCEPT ![c] = "exited"]
    /\ IF runner.current = c
       THEN /\ stopReq' = FALSE
            /\ IF stopReq
               THEN runner' = [runner EXCEPT !.state = "Stopped", !.exit_status = ExitCancelled]
               ELSE \/ runner' = [runner EXCEPT !.state = "Succeeded", !.exit_status = ExitOk]
                    \/ runner' = [runner EXCEPT !.state = "Failed", !.exit_status = ExitFail]
       ELSE UNCHANGED <<runner, stopReq>>
    /\ UNCHANGED <<callKind, callProgram, callPc, callResult, busyAt, thr, outcome, tmp>>
    /\ UNCHANGED <<storeVars, reportVars>>

\* A stop_execution that records a cancellation whatever the runner's state.
MutStopAlwaysCancels ==
    /\ stopReq' = (stopReq \/ RunnerIsRunning)
    /\ runner' = IF RunnerIsRunning THEN runner
                 ELSE [runner EXCEPT !.state = "Stopped", !.exit_status = ExitCancelled]
    /\ UNCHANGED <<callKind, callProgram, callPc, callResult, busyAt, thr, outcome, tmp, ctx>>
    /\ UNCHANGED <<storeVars, reportVars>>
\* stop_execution -> PythonRunner.stop: a no-op unless a session is running;
\* it issues the termination request and does not wait for the exit.
StopExecution ==
    /\ stopReq' = (stopReq \/ RunnerIsRunning)
    /\ UNCHANGED <<callKind, callProgram, callPc, callResult, busyAt, thr, outcome, tmp, ctx, runner>>
    /\ UNCHANGED <<storeVars, reportVars>>

NextExec ==
    \/ \E c \in Calls : ExecuteFromId(c)
    \/ \E c \in Calls : ExecuteFromCode(c)
    \/ \E c \in Calls : ExecuteReturn(c)
    \/ \E c \in Calls : TmpCreate(c)
    \/ \E c \in Calls : RunnerStart(c)
    \/ \E c \in Calls : TmpRelease(c)
    \/ \E c \in Calls : CtxOutput(c)
    \/ \E c \in Calls : CtxExit(c)
    \/ StopExecution

(***************************************************************************)
(*                           STORAGE HALF                                  *)
(***************************************************************************)
\* The texts callers pass: names, descriptions, script bodies, visual bodies.
Names == {"n1", "n2"}
Descriptions == {"d1"}
PythonCodes == {"c1", "c2"}
BlocklyCodes == {"b1"}
\* blockly_code: str = '' : the default of create_program and update_program.
NoBlockly == ""
UnknownDescription == "Unknown program"
\* What a read of a missing file yields (the read raises).
FileNotFound == "<FileNotFoundError>"

\* ---- metadata store (niryo_robot_database.Program), spec.md section 6.
\* saved_at is written by the store on every insert and update and read back
\* unchanged; it takes part in no decision of the manager and is left out.
DbRecord(name, description, has_blockly) ==
    [name |-> name, description |-> description, has_blockly |-> has_blockly]
DbInsert(db, id, name, description, has_blockly) ==
    MapPut(db, id, DbRecord(name, description, has_blockly))
DbUpdate(db, id, name, description, has_blockly) ==
    IF id \in DOMAIN db THEN MapPut(db, id, DbRecord(name, description, has_blockly)) ELSE db
DbUpdateHasBlockly(db, id, has_blockly) ==
    IF id \in DOMAIN db THEN [db EXCEPT ![id].has_blockly = has_blockly] ELSE db
DbDelete(db, id) == MapDel(db, id)
DbExists(db, id) == id \in DOMAIN db
DbGetAllIds(db) == DOMAIN db

\* ---- file stores (ProgramsFileManager), spec.md section 4.2.
FileCreate(files, id, body) == MapPut(files, id, body)
FileEdit(files, id, body) == MapPut(files, id, body)
FileRemove(files, id) == MapDel(files, id)
FileExists(files, id) == id \in DOMAIN files
FileRead(files, id) == IF id \in DOMAIN files THEN files[id] ELSE FileNotFound
FileGetAllNames(files) == DOMAIN files

\* ---- __sync_db_with_system
\* First loop (lines 51-57) over the snapshot db_programs taken at line 47.
RECURSIVE SyncRepair(_, _, _, _, _)
RECURSIVE MutSyncRepairDeletesDangling(_, _, _, _, _)
RECURSIVE MutSyncRepairLeavesFlag(_, _, _, _, _)
RECURSIVE MutSyncRepairClearsEveryFlag(_, _, _, _, _)
RECURSIVE MutSyncRepairKeepsFileless(_, _, _, _, _)
\* A first loop that lacks the branch of lines 52-54.
MutSyncRepairKeepsFileless(db, snapshot, todo, python_programs, blockly_programs) ==
    IF todo = {} THEN db
    ELSE LET id == CHOOSE x \in todo : TRUE
             repaired ==
                 IF snapshot[id].has_blockly /\ id \notin blockly_programs
                 THEN DbUpdateHasBlockly(db, id, FALSE)
                 ELSE db
         IN MutSyncRepairKeepsFileless(repaired, snapshot, todo \ {id},
                                       python_programs, blockly_programs)
\* A first loop that lacks the elif branch of lines 55-57.
MutSyncRepairLeavesFlag(db, snapshot, todo, python_programs, blockly_programs) ==
    IF todo = {} THEN db
    ELSE LET id == CHOOSE x \in todo : TRUE
             repaired == IF id \notin python_programs THEN DbDelete(db, id) ELSE db
         IN MutSyncRepairLeavesFlag(repaired, snapshot, todo \ {id},
                                    python_programs, blockly_programs)
\* A first loop that removes the record whose visual file is missing.
MutSyncRepairDeletesDangling(db, snapshot, todo, python_programs, blockly_programs) ==
    IF todo = {} THEN db
    ELSE LET id == CHOOSE x \in todo : TRUE
             repaired ==
                 IF id \notin python_programs
                    \/ (snapshot[id].has_blockly /\ id \notin blockly_programs)
                 THEN DbDelete(db, id)
                 ELSE db
         IN MutSyncRepairDeletesDangling(repaired, snapshot, todo \ {id},
                                         python_programs, blockly_programs)
\* A first loop whose elif branch does not look at the visual files.
MutSyncRepairClearsEveryFlag(db, snapshot, todo, python_programs, blockly_programs) ==
    IF todo = {} THEN db
    ELSE LET id == CHOOSE x \in todo : TRUE
             repaired ==
                 IF id \notin python_programs
                 THEN DbDelete(db, id)
                 ELSE IF snapshot[id].has_blockly
                      THEN DbUpdateHasBlockly(db, id, FALSE)
                      ELSE db
         IN MutSyncRepairClearsEveryFlag(repaired, snapshot, todo \ {id},
                                         python_programs, blockly_programs)
SyncRepair(db, snapshot, todo, python_programs, blockly_programs) ==
    IF todo = {} THEN db
    ELSE LET id == CHOOSE x \in todo : TRUE
             repaired ==
                 IF id \notin python_programs
                 THEN DbDelete(db, id)
                 ELSE IF snapshot[id].has_blockly /\ id \notin blockly_programs
                      THEN DbUpdateHasBlockly(db, id, FALSE)
                      ELSE db
         IN SyncRepair(repaired, snapshot, todo \ {id}, python_programs, blockly_programs)

\* Second loop (lines 59-66) over the script files.
RECURSIVE SyncAdopt(_, _, _, _)
RECURSIVE MutSyncAdoptAlwaysBlockly(_, _, _, _)
\* A second loop that marks every adopted program as having a visual body.
MutSyncAdoptAlwaysBlockly(db, db_programs_ids, todo, blockly_programs) ==
    IF todo = {} THEN db
    ELSE LET python_program == CHOOSE x \in todo : TRUE
             adopted ==
                 IF python_program \notin db_programs_ids
                 THEN DbInsert(db, python_program, python_program, UnknownDescription, TRUE)
                 ELSE db
         IN MutSyncAdoptAlwaysBlockly(adopted, db_programs_ids, todo \ {python_program},
                                      blockly_programs)
SyncAdopt(db, db_programs_ids, todo, blockly_programs) ==
    IF todo = {} THEN db
    ELSE LET python_program == CHOOSE x \in todo : TRUE
             adopted ==
                 IF python_program \notin db_programs_ids
                 THEN DbInsert(db, python_program, python_program, UnknownDescription,
                               python_program \in blockly_programs)
                 ELSE db
         IN SyncAdopt(adopted, db_programs_ids, todo \ {python_program}, blockly_programs)

\* A reconciliation that lacks the second loop.
MutSyncWithoutAdoption(db, py, bl) ==
    SyncRepair(db, db, DbGetAllIds(db), FileGetAllNames(py), FileGetAllNames(bl))
\* __sync_db_with_system, lines 47-66.
SyncDbWithSystem(db, py, bl) ==
    LET python_programs == FileGetAllNames(py)
        blockly_programs == FileGetAllNames(bl)
        repaired == SyncRepair(db, db, DbGetAllIds(db), python_programs, blockly_programs)
    IN SyncAdopt(repaired, DbGetAllIds(db), python_programs, blockly_programs)

\* The rospy.logwarn calls of __sync_db_with_system (lines 53, 56 and 62), one
\* per repair: the record removed, the flag cleared, the file adopted.
SyncWarnings(db, py, bl) ==
    LET python_programs == FileGetAllNames(py)
        blockly_programs == FileGetAllNames(bl)
    IN    {<<"removed", id>> : id \in DbGetAllIds(db) \ python_programs}
     \cup {<<"flag_cleared", id>> :
              id \in {x \in DbGetAllIds(db) \cap python_programs :
                         db[x].has_blockly /\ x \notin blockly_programs}}
     \cup {<<"adopted", id>> : id \in python_programs \ DbGetAllIds(db)}

\* ---- get / get_all
\* A get that reads the visual file whatever has_blockly says.
MutGetAlwaysReadsVisual(db, py, bl, id) ==
    [id |-> id,
     name |-> db[id].name,
     description |-> db[id].description,
     has_blockly |-> db[id].has_blockly,
     python_code |-> FileRead(py, id),
     blockly_code |-> IF FileExists(bl, id) THEN FileRead(bl, id) ELSE NoBlockly]
\* A get that reads the script body through the visual file store.
MutGetReadsVisualStore(db, py, bl, id) ==
    [id |-> id,
     name |-> db[id].name,
     description |-> db[id].description,
     has_blockly |-> db[id].has_blockly,
     python_code |-> FileRead(bl, id),
     blockly_code |-> IF db[id].has_blockly THEN FileRead(bl, id) ELSE NoBlockly]
\* get, lines 106-109.
Get(db, py, bl, id) ==
    [id |-> id,
     name |-> db[id].name,
     description |-> db[id].description,
     has_blockly |-> db[id].has_blockly,
     python_code |-> FileRead(py, id),
     blockly_code |-> IF db[id].has_blockly THEN FileRead(bl, id) ELSE NoBlockly]

\* A get that reads the script file before it looks the record up.
MutGetErrorReadsFileFirst(db, py, bl, id) ==
    IF ~FileExists(py, id) THEN FileNotFound
    ELSE IF ~DbExists(db, id) THEN "NotFound"
    ELSE IF db[id].has_blockly /\ ~FileExists(bl, id) THEN FileNotFound
    ELSE "none"
\* How get ends: get_by_id raises NotFound for an id without a record (line
\* 106), then the reads raise for a missing file (lines 107-108).
GetError(db, py, bl, id) ==
    IF ~DbExists(db, id) THEN "NotFound"
    ELSE IF ~FileExists(py, id) THEN FileNotFound
    ELSE IF db[id].has_blockly /\ ~FileExists(bl, id) THEN FileNotFound
    ELSE "none"

\* An exists that asks the metadata store only.
MutExistsRecordOnly(db, py, id) == DbExists(db, id)
\* exists, line 103.
Exists(db, py, id) == DbExists(db, id) /\ FileExists(py, id)

\* A get_all that lists the programs that have a visual body only.
MutGetAllOnlyWithBlockly(db, py, bl) ==
    [id \in {x \in DbGetAllIds(db) : db[x].has_blockly} |-> Get(db, py, bl, id)]
\* get_all, line 112: one get per record of database.get_all(), kept by id.
GetAll(db, py, bl) == [id \in DbGetAllIds(db) |-> Get(db, py, bl, id)]

\* How get_all ends: the first get that raises ends the comprehension.
GetAllError(db, py, bl) ==
    IF \E id \in DbGetAllIds(db) : GetError(db, py, bl, id) # "none"
    THEN FileNotFound
    ELSE "none"

\* ---- the operation in progress
IdleOp ==
    [kind |-> "none", pc |-> 1, id |-> "", name |-> "", description |-> "",
     python_code |-> "", blockly_code |-> NoBlockly, popped_has_blockly |-> FALSE,
     log |-> <<>>, known |-> FALSE, error |-> "none", answer |-> FALSE]

\* The store calls of each operation, in the order the code issues them.
\* bl_create and bl_edit act only if a visual body was given, bl_remove only
\* if the popped cache entry had has_blockly.

\* A create that writes the script file before the metadata record.
MutCreateFileFirst == <<"py_create", "db_insert", "bl_create", "cache_set">>
\* create_program, lines 73-78.
CreateSteps == <<"db_insert", "py_create", "bl_create", "cache_set">>

\* A delete that only drops the cache entry and the visual file.
MutDeleteKeepsRecordAndScript == <<"cache_pop", "bl_remove">>
\* delete_program, lines 82-86.
DeleteSteps == <<"db_delete", "py_remove", "cache_pop", "bl_remove">>

\* An update that does not write the script file.
MutUpdateWithoutScriptEdit == <<"db_update", "bl_edit", "cache_pop", "cache_set">>
\* An update that leaves the cache entry as it was.
MutUpdateWithoutCacheRefresh == <<"db_update", "py_edit", "bl_edit">>
\* update_program, lines 95-100.
UpdateSteps == <<"db_update", "py_edit", "bl_edit", "cache_pop", "cache_set">>

StepsOf(kind) ==
    CASE kind = "create" -> CreateSteps
      [] kind = "delete" -> DeleteSteps
      [] kind = "update" -> UpdateSteps
      [] OTHER -> <<>>

\* No operation is in progress: none was started, or the last one returned.
Settled == op.pc > Len(StepsOf(op.kind))
InProgress(kind) == op.kind = kind /\ op.pc <= Len(StepsOf(kind))
CurrentStep == StepsOf(op.kind)[op.pc]
Completed(kind) == op.kind = kind /\ op.pc > Len(StepsOf(kind)) /\ op.error = "none"

\* uuid4(): an id that names nothing in the stores or the cache, and that no
\* call in progress was given.
FreshIds ==
    ProgramIds \ (DOMAIN database \cup DOMAIN python_files
                  \cup DOMAIN blockly_files \cup DOMAIN programs
                  \cup {suspended.id})

\* The stores of a new installation, with the manager constructed on them.
InitStoreFresh ==
    /\ database = EmptyMap
    /\ python_files = EmptyMap
    /\ blockly_files = EmptyMap
    /\ programs = EmptyMap
    /\ constructed = TRUE
    /\ op = IdleOp
    /\ warnings = {}
    /\ suspended = IdleOp

\* Any contents of the three stores, before the manager is constructed.
InitStoreAny ==
    /\ \E ids \in SUBSET ProgramIds :
           database \in [ids -> [name : Names, description : Descriptions,
                                 has_blockly : BOOLEAN]]
    /\ \E ids \in SUBSET ProgramIds : python_files \in [ids -> PythonCodes]
    /\ \E ids \in SUBSET ProgramIds : blockly_files \in [ids -> BlocklyCodes]
    /\ programs = EmptyMap
    /\ constructed = FALSE
    /\ op = IdleOp
    /\ warnings = {}
    /\ suspended = IdleOp

\* The stores and the cache of a manager that was constructed on stored
\* programs: every record has its script file, and its visual file exactly
\* when has_blockly says so; the cache is what line 39 built.
InitStoreSynced ==
    /\ \E ids \in (SUBSET ProgramIds) \ {{}} :
           database \in [ids -> [name : Names, description : Descriptions,
                                 has_blockly : BOOLEAN]]
    /\ python_files \in [DOMAIN database -> PythonCodes]
    /\ blockly_files \in [{id \in DOMAIN database : database[id].has_blockly} -> BlocklyCodes]
    /\ programs = GetAll(database, python_files, blockly_files)
    /\ constructed = TRUE
    /\ op = IdleOp
    /\ warnings = {}
    /\ suspended = IdleOp

\* __init__ (also a restart of the node between two operations):
\* reconciliation, then the cache is rebuilt from get_all().
Construct ==
    /\ ~constructed \/ Settled
    /\ warnings' = SyncWarnings(database, python_files, blockly_files)
    /\ database' = SyncDbWithSystem(database, python_files, blockly_files)
    /\ programs' = GetAll(database', python_files, blockly_files)
    /\ constructed' = TRUE
    /\ op' = IdleOp
    /\ UNCHANGED <<python_files, blockly_files>>
    /\ UNCHANGED suspended
    /\ UNCHANGED <<execVars, reportVars>>

BeginOp(kind, id, name, description, python_code, blockly_code) ==
    /\ constructed
    /\ Settled
    /\ op' = [kind |-> kind, pc |-> 1, id |-> id, name |-> name,
              description |-> description, python_code |-> python_code,
              blockly_code |-> blockly_code, popped_has_blockly |-> FALSE, log |-> <<>>,
              known |-> DbExists(database, id), error |-> "none", answer |-> FALSE]
    /\ warnings' = {}
    /\ UNCHANGED <<database, python_files, blockly_files, programs, constructed>>
    /\ UNCHANGED suspended
    /\ UNCHANGED <<execVars, reportVars>>

\* create_program, lines 71-72: has_blockly and the new id.
CreateProgram ==
    \E id \in FreshIds, name \in Names, description \in Descriptions,
       python_code \in PythonCodes, blockly_code \in BlocklyCodes \cup {NoBlockly} :
        BeginOp("create", id, name, description, python_code, blockly_code)

\* update_program of a program the manager knows, line 94.
UpdateProgram ==
    \E id \in DOMAIN programs, name \in Names, description \in Descriptions,
       python_code \in PythonCodes, blockly_code \in BlocklyCodes \cup {NoBlockly} :
        BeginOp("update", id, name, description, python_code, blockly_code)

\* delete_program of a program the manager knows.
DeleteProgram ==
    \E id \in DOMAIN programs :
        BeginOp("delete", id, "", "", "", NoBlockly)

\* update_program of an id that has no metadata record.
UpdateUnknown ==
    \E id \in ProgramIds \ DOMAIN database, name \in Names, description \in Descriptions,
       python_code \in PythonCodes, blockly_code \in BlocklyCodes \cup {NoBlockly} :
        BeginOp("update", id, name, description, python_code, blockly_code)

\* delete_program of an id that has no metadata record.
DeleteUnknown ==
    \E id \in ProgramIds \ DOMAIN database :
        BeginOp("delete", id, "", "", "", NoBlockly)

\* get, lines 106-109: reads only.
GetProgram ==
    /\ constructed
    /\ Settled
    /\ \E id \in ProgramIds :
           op' = [IdleOp EXCEPT !.kind = "get", !.id = id,
                                !.known = DbExists(database, id),
                                !.error = GetError(database, python_files, blockly_files, id)]
    /\ warnings' = {}
    /\ UNCHANGED <<database, python_files, blockly_files, programs, constructed>>
    /\ UNCHANGED suspended
    /\ UNCHANGED <<execVars, reportVars>>

\* get_all, line 112: reads only.
ListPrograms ==
    /\ constructed
    /\ Settled
    /\ op' = [IdleOp EXCEPT !.kind = "list",
                            !.error = GetAllError(database, python_files, blockly_files)]
    /\ warnings' = {}
    /\ UNCHANGED <<database, python_files, blockly_files, programs, constructed>>
    /\ UNCHANGED suspended
    /\ UNCHANGED <<execVars, reportVars>>

\* exists, line 103: reads only.
ExistsProgram ==
    /\ constructed
    /\ Settled
    /\ \E id \in ProgramIds :
           op' = [IdleOp EXCEPT !.kind = "exists", !.id = id,
                                !.known = DbExists(database, id),
                                !.answer = Exists(database, python_files, id)]
    /\ warnings' = {}
    /\ UNCHANGED <<database, python_files, blockly_files, programs, constructed>>
    /\ UNCHANGED suspended
    /\ UNCHANGED <<execVars, reportVars>>

\* A create whose failing file write takes the metadata record back.
MutCreateWriteFailsRollsBack ==
    /\ InProgress("create")
    /\ \/ CurrentStep = "py_create"
       \/ CurrentStep = "bl_create" /\ op.blockly_code # NoBlockly
    /\ op' = [op EXCEPT !.pc = Len(StepsOf(op.kind)) + 1, !.error = "StorageFailure"]
    /\ database' = DbDelete(database, op.id)
    /\ UNCHANGED <<python_files, blockly_files, programs, constructed, warnings>>
    /\ UNCHANGED suspended
    /\ UNCHANGED <<execVars, reportVars>>
\* create_program, lines 74 and 76: the write of the script file or of the
\* visual file fails (StorageFailure); the exception leaves create_program,
\* which has no handler, and no later line of it runs.
CreateWriteFails ==
    /\ InProgress("create")
    /\ \/ CurrentStep = "py_create"
       \/ CurrentStep = "bl_create" /\ op.blockly_code # NoBlockly
    /\ op' = [op EXCEPT !.pc = Len(StepsOf(op.kind)) + 1, !.error = "StorageFailure"]
    /\ UNCHANGED <<database, python_files, blockly_files, programs, constructed, warnings>>
    /\ UNCHANGED suspended
    /\ UNCHANGED <<execVars, reportVars>>

\* The store call at hand raises: self.__programs.pop(program_id) of an id the
\* cache does not hold, or self.get(program_id) of an id that has lost its
\* record or a file it needs.
StepRaises ==
    \/ CurrentStep = "cache_pop" /\ op.id \notin DOMAIN programs
    \/ /\ CurrentStep = "cache_set"
       /\ GetError(database, python_files, blockly_files, op.id) # "none"

\* Lines 84 and 99: the pop raises KeyError and the call ends there.
PopRaises ==
    /\ InProgress("update") \/ InProgress("delete")
    /\ CurrentStep = "cache_pop"
    /\ StepRaises
    /\ op' = [op EXCEPT !.pc = Len(StepsOf(op.kind)) + 1, !.error = "KeyError"]
    /\ UNCHANGED <<database, python_files, blockly_files, programs, constructed, warnings>>
    /\ UNCHANGED suspended
    /\ UNCHANGED <<execVars, reportVars>>

\* Line 100: the get of update_program raises (the record or a file of the id
\* was removed since line 95) and the call ends there, the cache entry popped.
GetRaises ==
    /\ InProgress("update")
    /\ CurrentStep = "cache_set"
    /\ StepRaises
    /\ op' = [op EXCEPT !.pc = Len(StepsOf(op.kind)) + 1,
                        !.error = GetError(database, python_files, blockly_files, op.id)]
    /\ UNCHANGED <<database, python_files, blockly_files, programs, constructed, warnings>>
    /\ UNCHANGED suspended
    /\ UNCHANGED <<execVars, reportVars>>

\* One store call of the operation in progress.
ApplyStep(step) ==
    LET has_blockly == op.blockly_code # NoBlockly
        Advance(popped, logged) ==
            op' = [op EXCEPT !.pc = @ + 1, !.popped_has_blockly = popped,
                             !.log = IF logged THEN Append(@, step) ELSE @]
    IN
    CASE step = "db_insert" ->
            /\ database' = DbInsert(database, op.id, op.name, op.description, has_blockly)
            /\ Advance(FALSE, TRUE)
            /\ UNCHANGED <<python_files, blockly_files, programs>>
      [] step = "db_update" ->
            /\ database' = DbUpdate(database, op.id, op.name, op.description, has_blockly)
            /\ Advance(FALSE, TRUE)
            /\ UNCHANGED <<python_files, blockly_files, programs>>
      [] step = "db_delete" ->
            /\ database' = DbDelete(database, op.id)
            /\ Advance(FALSE, TRUE)
            /\ UNCHANGED <<python_files, blockly_files, programs>>
      [] step = "py_create" ->
            /\ python_files' = FileCreate(python_files, op.id, op.python_code)
            /\ Advance(FALSE, TRUE)
            /\ UNCHANGED <<database, blockly_files, programs>>
      [] step = "py_edit" ->
            /\ python_files' = FileEdit(python_files, op.id, op.python_code)
            /\ Advance(FALSE, TRUE)
            /\ UNCHANGED <<database, blockly_files, programs>>
      [] step = "py_remove" ->
            /\ python_files' = FileRemove(python_files, op.id)
            /\ Advance(FALSE, TRUE)
            /\ UNCHANGED <<database, blockly_files, programs>>
      [] step = "bl_create" ->
            /\ blockly_files' = IF has_blockly
                                THEN FileCreate(blockly_files, op.id, op.blockly_code)
                                ELSE blockly_files
            /\ Advance(FALSE, has_blockly)
            /\ UNCHANGED <<database, python_files, programs>>
      [] step = "bl_edit" ->
            /\ blockly_files' = IF has_blockly
                                THEN FileEdit(blockly_files, op.id, op.blockly_code)
                                ELSE blockly_files
            /\ Advance(FALSE, has_blockly)
            /\ UNCHANGED <<database, python_files, programs>>
      [] step = "bl_remove" ->
            /\ blockly_files' = IF op.popped_has_blockly
                                THEN FileRemove(blockly_files, op.id)
                                ELSE blockly_files
            /\ Advance(op.popped_has_blockly, op.popped_has_blockly)
            /\ UNCHANGED <<database, python_files, programs>>
      [] step = "cache_pop" ->
            /\ programs' = MapDel(programs, op.id)
            /\ Advance(programs[op.id].has_blockly, FALSE)
            /\ UNCHANGED <<database, python_files, blockly_files>>
      [] step = "cache_set" ->
            /\ programs' = MapPut(programs, op.id,
                                  Get(database, python_files, blockly_files, op.id))
            /\ Advance(FALSE, FALSE)
            /\ UNCHANGED <<database, python_files, blockly_files>>

\* create_program, lines 73-79.
CreateStep ==
    /\ InProgress("create")
    /\ ApplyStep(CurrentStep)
    /\ UNCHANGED <<constructed, warnings>>
    /\ UNCHANGED suspended
    /\ UNCHANGED <<execVars, reportVars>>

\* update_program, lines 95-100.
UpdateStep ==
    /\ InProgress("update")
    /\ ~StepRaises
    /\ ApplyStep(CurrentStep)
    /\ UNCHANGED <<constructed, warnings>>
    /\ UNCHANGED suspended
    /\ UNCHANGED <<execVars, reportVars>>

\* A delete whose store calls also ask the runner to stop.
MutDeleteStepStopsSession ==
    /\ InProgress("delete")
    /\ ~StepRaises
    /\ ApplyStep(CurrentStep)
    /\ UNCHANGED <<constructed, warnings>>
    /\ stopReq' = (stopReq \/ RunnerIsRunning)
    /\ UNCHANGED suspended
    /\ UNCHANGED <<callKind, callProgram, callPc, callResult, busyAt, thr, outcome, tmp,
                   ctx, runner>>
    /\ UNCHANGED reportVars
\* delete_program, lines 82-86.
DeleteStep ==
    /\ InProgress("delete")
    /\ ~StepRaises
    /\ ApplyStep(CurrentStep)
    /\ UNCHANGED <<constructed, warnings>>
    /\ UNCHANGED suspended
    /\ UNCHANGED <<execVars, reportVars>>

NextStore ==
    \/ Construct
    \/ CreateProgram
    \/ UpdateProgram
    \/ DeleteProgram
    \/ CreateStep
    \/ UpdateStep
    \/ DeleteStep

\* The storage half with calls on ids that have no record, the reading calls
\* and file writes of create that fail.
NextApi ==
    \/ Construct
    \/ CreateProgram
    \/ UpdateProgram
    \/ DeleteProgram
    \/ CreateStep
    \/ UpdateStep
    \/ DeleteStep
    \/ UpdateUnknown
    \/ DeleteUnknown
    \/ PopRaises
    \/ GetProgram
    \/ ListPrograms
    \/ ExistsProgram
    \/ CreateWriteFails

\* The call whose session runs beside the calls of the storage half.
SessionCall == CHOOSE c \in Calls : \A d \in Calls : c <= d

\* Both halves together: create, update, delete, get, get_all and exists
\* interleaved with one execution session and stop_execution.
NextSession ==
    \/ CreateProgram
    \/ UpdateProgram
    \/ DeleteProgram
    \/ CreateStep
    \/ UpdateStep
    \/ DeleteStep
    \/ GetProgram
    \/ ListPrograms
    \/ ExistsProgram
    \/ ExecuteFromId(SessionCall)
    \/ ExecuteFromCode(SessionCall)
    \/ ExecuteReturn(SessionCall)
    \/ TmpCreate(SessionCall)
    \/ RunnerStart(SessionCall)
    \/ TmpRelease(SessionCall)
    \/ CtxOutput(SessionCall)
    \/ CtxExit(SessionCall)
    \/ StopExecution

\* The second caller thread is between the first and the last store call of
\* its manager call.
SuspendedInProgress == suspended.pc <= Len(StepsOf(suspended.kind))

\* Two caller threads: the interpreter takes the running thread off the
\* processor between two store calls and resumes the other one.  No line of
\* create_program, update_program, delete_program or get takes a lock.
SwitchThread ==
    /\ constructed
    /\ op' = suspended
    /\ suspended' = op
    /\ UNCHANGED <<database, python_files, blockly_files, programs, constructed, warnings>>
    /\ UNCHANGED <<execVars, reportVars>>

\* Each of the two threads makes one call: update_program or delete_program
\* of a stored program.
ThreadUpdate == op.kind = "none" /\ UpdateProgram
ThreadDelete == op.kind = "none" /\ DeleteProgram

\* update_program and delete_program of stored programs, called from two
\* threads.
NextThreads ==
    \/ ThreadUpdate
    \/ ThreadDelete
    \/ UpdateStep
    \/ DeleteStep
    \/ PopRaises
    \/ GetRaises
    \/ SwitchThread

(***************************************************************************)
(*                        NIRYO_ROBOT_REPORTS                              *)
(***************************************************************************)
\* ---- ReportHandler
\* What callers pass to add_log.
LogMsgs == {"m1", "m2"}
LogTypes == {"t1", "t2"}
LogDates == {"day1", "day2"}
\* The arguments on record before any add_log call.
NoLog == [msg |-> "", type |-> "", date |-> ""]

\* The number of dates the log list holds: one for each add_log call.
RECURSIVE Occurrences(_)
Occurrences(logs) ==
    IF logs = <<>> THEN 0 ELSE Len(Head(logs).occurred) + Occurrences(Tail(logs))

\* An add_log that merges the calls that agree on the message and on the type.
MutAddLogMergesByMsgAndType(logs, msg, log_type, date) ==
    LET matching == {index \in 1..Len(logs) :
                        logs[index].msg = msg /\ logs[index].type = log_type} IN
    IF matching # {}
    THEN LET index == CHOOSE i \in matching : \A j \in matching : i <= j
         IN [logs EXCEPT ![index].occurred = Append(@, date)]
    ELSE Append(logs, [msg |-> msg, type |-> log_type, occurred |-> <<date>>])
\* add_log, lines 27-38: the date goes to the first entry that has the
\* message (the loop breaks there), or a new entry is appended.
add_log(logs, msg, log_type, date) ==
    LET matching == {index \in 1..Len(logs) : logs[index].msg = msg} IN
    IF matching # {}
    THEN LET index == CHOOSE i \in matching : \A j \in matching : i <= j
         IN [logs EXCEPT ![index].occurred = Append(@, date)]
    ELSE Append(logs, [msg |-> msg, type |-> log_type, occurred |-> <<date>>])

\* ReportHandler(path) on a file that is new or empty: json.load raises
\* ValueError and the content is {'logs': []} (lines 6-20).
NewReportHandler == [logs |-> <<>>, file |-> <<>>, added |-> NoLog]

\* add_log, lines 26-39: the merge, then __write dumps the content to the
\* file (lists and strings, which json.load gives back as they are).
AddLog ==
    /\ Occurrences(reportHandler.logs) < MaxLogs
    /\ \E msg \in LogMsgs, log_type \in LogTypes, date \in LogDates :
           LET logs == add_log(reportHandler.logs, msg, log_type, date) IN
           reportHandler' = [logs |-> logs, file |-> logs,
                             added |-> [msg |-> msg, type |-> log_type, date |-> date]]
    /\ UNCHANGED cloud
    /\ UNCHANGED <<execVars, storeVars>>

NextReportHandler == AddLog

\* ---- CloudAPI
\* The keys of CloudAPI.__microservices (lines 133-146).
ServiceNames ==
    {"authentification", "daily_reports", "test_reports", "alert_reports",
     "auto_diagnosis_reports"}
ReportServices == ServiceNames \ {"authentification"}
\* What callers pass as serial number, rasp id, API key and identifier.
SerialNumbers == {"", "sn1"}
RaspIds == {"", "rasp1"}
ApiKeys == {"key1", "key2"}
Identifiers == {"sn1", "rasp1", "id2"}

\* The dict objects of the heap: the one made at line 122, and for each micro
\* service the place of a dict of its own, which the code never makes.
HeaderOwners == {"CloudAPI"} \cup ServiceNames
\* A place of the heap that holds no credentials.
NoHeaders == [identifier |-> "", apiKey |-> ""]
\* The send on record before any send or call.
NoSend == [service |-> "", result |-> "", headers |-> NoHeaders]

\* A micro service that keeps a copy of the headers it is given.
MutMicroServiceCopiesHeaders(headers, name) == name
\* ABCMicroService.__init__, line 27: self._headers = headers.  The micro
\* service keeps the object it was given, not a copy of it.
MicroServiceHeaders(headers, name) == headers

\* The class __init_microservices instantiates for a key (lines 133-147).
MicroServiceClass(name, sharing_allowed) ==
    IF name = "authentification" THEN "AuthentificationMS"
    ELSE IF ~sharing_allowed THEN "FakeReportMS"
    ELSE CASE name = "daily_reports" -> "DailyReportMS"
           [] name = "test_reports" -> "TestReportMS"
           [] name = "alert_reports" -> "AlertReportMS"
           [] OTHER -> "AutoDiagnosisReportMS"

\* __init_microservices, lines 132-147: the five micro services are made anew
\* on self.__headers.
InitMicroservices(c) ==
    LET kept(name) == MicroServiceHeaders("CloudAPI", name) IN
    [c EXCEPT !.microservices =
                  [name \in ServiceNames |->
                      [class |-> MicroServiceClass(name, c.sharing_allowed),
                       headers |-> kept(name)]],
              !.heap =
                  [o \in HeaderOwners |->
                      IF o # "CloudAPI" /\ \E name \in ServiceNames : kept(name) = o
                      THEN c.heap["CloudAPI"]
                      ELSE c.heap[o]]]

\* CloudAPI.__init__, lines 116-130 (called with a serial number or a rasp id:
\* line 121 raises otherwise).  The header 'accept' is never changed and is
\* left out.
NewCloudAPI(serial_number, rasp_id, api_key, sharing_allowed) ==
    LET identifier == IF serial_number # "" THEN serial_number ELSE rasp_id
        headers == [identifier |-> identifier, apiKey |-> api_key]
    IN InitMicroservices(
           [sharing_allowed |-> sharing_allowed,
            heap |-> [o \in HeaderOwners |-> IF o = "CloudAPI" THEN headers ELSE NoHeaders],
            microservices |-> [name \in ServiceNames |-> [class |-> "", headers |-> ""]],
            set |-> headers,
            posted |-> 0,
            sent |-> NoSend])

\* set_identifier and set_api_key, lines 149-155: update_header (lines 29-30)
\* on every micro service writes the key in the dict that service keeps.
UpdateHeaders(c, key, value) ==
    [c EXCEPT !.heap =
                  [o \in HeaderOwners |->
                      IF \E name \in ServiceNames : c.microservices[name].headers = o
                      THEN [c.heap[o] EXCEPT ![key] = value]
                      ELSE c.heap[o]],
              !.set = [c.set EXCEPT ![key] = value]]

SetIdentifier ==
    /\ \E value \in Identifiers : cloud' = UpdateHeaders(cloud, "identifier", value)
    /\ UNCHANGED reportHandler
    /\ UNCHANGED <<execVars, storeVars>>

SetApiKey ==
    /\ \E value \in ApiKeys : cloud' = UpdateHeaders(cloud, "apiKey", value)
    /\ UNCHANGED reportHandler
    /\ UNCHANGED <<execVars, storeVars>>

\* set_sharing_allowed, lines 157-159.
SetSharingAllowed ==
    /\ \E value \in BOOLEAN :
           cloud' = InitMicroservices([cloud EXCEPT !.sharing_allowed = value])
    /\ UNCHANGED reportHandler
    /\ UNCHANGED <<execVars, storeVars>>

\* send of one of the four report services: FakeReportMS.send (lines 110-111)
\* returns True and posts nothing; ABCReportMicroService.send (lines 49-62)
\* posts the payload with the headers the service keeps, and returns None or
\* raises MicroServiceError.
Send ==
    /\ \E name \in ReportServices :
           LET ms == cloud.microservices[name] IN
           IF ms.class = "FakeReportMS"
           THEN cloud' = [cloud EXCEPT !.sent = [service |-> name, result |-> "True",
                                                 headers |-> NoHeaders]]
           ELSE /\ cloud.posted < MaxPosts
                /\ \E result \in {"None", "MicroServiceError"} :
                       cloud' = [cloud EXCEPT !.posted = @ + 1,
                                              !.sent = [service |-> name, result |-> result,
                                                        headers |-> cloud.heap[ms.headers]]]
    /\ UNCHANGED reportHandler
    /\ UNCHANGED <<execVars, storeVars>>

\* AuthentificationMS.call, lines 68-89: a request for the token of the
\* identifier of the headers; it returns the API key or raises.
AuthentificationCall ==
    /\ cloud.posted < MaxPosts
    /\ LET ms == cloud.microservices["authentification"] IN
       \E result \in {"apikey", "MicroServiceError"} :
           cloud' = [cloud EXCEPT !.posted = @ + 1,
                                  !.sent = [service |-> "authentification",
                                            result |-> result,
                                            headers |-> cloud.heap[ms.headers]]]
    /\ UNCHANGED reportHandler
    /\ UNCHANGED <<execVars, storeVars>>

NextCloudAPI ==
    \/ SetIdentifier
    \/ SetApiKey
    \/ SetSharingAllowed
    \/ Send
    \/ AuthentificationCall

\* The reports node of the other specifications: constructed, no call made.
InitReportVars ==
    /\ reportHandler = NewReportHandler
    /\ cloud = NewCloudAPI("sn1", "rasp1", "key1", TRUE)

\* A CloudAPI constructed with any arguments __init__ accepts.
InitCloudVars ==
    /\ reportHandler = NewReportHandler
    /\ \E serial_number \in SerialNumbers, rasp_id \in RaspIds, api_key \in ApiKeys,
          sharing_allowed \in BOOLEAN :
           /\ serial_number # "" \/ rasp_id # ""
           /\ cloud = NewCloudAPI(serial_number, rasp_id, api_key, sharing_allowed)

(***************************************************************************)
(*                          SPECIFICATIONS                                 *)
(***************************************************************************)
InitExec == InitExecVars /\ InitStoreFresh /\ InitReportVars
InitFresh == InitExecVars /\ InitStoreFresh /\ InitReportVars
InitAny == InitExecVars /\ InitStoreAny /\ InitReportVars

\* The execution half, any interleaving of callers, threads and contexts.
SpecExec == InitExec /\ [][NextExec]_vars

\* The execution half under fair scheduling: a spawned thread that can take
\* its next step takes it, and a caller whose wait loop can end leaves it.
\* An execution context is not required to terminate, nor a caller to call.
FairExec ==
    \A c \in Calls :
        /\ WF_vars(TmpCreate(c))
        /\ WF_vars(RunnerStart(c))
        /\ WF_vars(TmpRelease(c))
        /\ WF_vars(ExecuteReturn(c))
SpecExecFair == InitExec /\ [][NextExec]_vars /\ FairExec

\* The execution half where, on top of fair scheduling, stop terminates the
\* context it was asked to terminate (PythonRunner.stop guarantees termination).
StoppedCtxExit(c) == stopReq /\ runner.current = c /\ CtxExit(c)
FairStop == \A c \in Calls : WF_vars(StoppedCtxExit(c))
SpecExecStopFair == InitExec /\ [][NextExec]_vars /\ FairExec /\ FairStop

\* The storage half on a new installation.
SpecFresh == InitFresh /\ [][NextStore]_vars

\* The storage half started on any contents of the three stores.
SpecAny == InitAny /\ [][NextStore]_vars

\* The storage half started on any contents, callers passing any id.
InitApi == InitExecVars /\ InitStoreAny /\ InitReportVars
SpecApi == InitApi /\ [][NextApi]_vars

\* One session beside the storage half of a new installation.
InitSession == InitExecVars /\ InitStoreFresh /\ InitReportVars
SpecSession == InitSession /\ [][NextSession]_vars

\* The storage half of a manager constructed on stored programs, called from
\* two threads.
InitThreads == InitExecVars /\ InitStoreSynced /\ InitReportVars
SpecThreads == InitThreads /\ [][NextThreads]_vars

\* The log aggregation of a ReportHandler that started empty.
InitReportHandler == InitExecVars /\ InitStoreFresh /\ InitReportVars
SpecReportHandler == InitReportHandler /\ [][NextReportHandler]_vars

\* The credentials and the micro services of a CloudAPI.
InitCloudAPI == InitExecVars /\ InitStoreFresh /\ InitCloudVars
SpecCloudAPI == InitCloudAPI /\ [][NextCloudAPI]_vars

(***************************************************************************)
(*                     PROPERTIES, EXECUTION HALF                          *)
(***************************************************************************)
AliveContexts == {c \in Calls : ctx[c] = "alive"}

\* The session that was Running when call c was issued is still the running one.
SameSessionStillRunning(c) ==
    /\ busyAt[c] # NoCall
    /\ RunnerIsRunning
    /\ runner.current = busyAt[c]

\* C1: an execute_from_code call issued while the session of an earlier
\* execute_from_code call is Running, and whose start the runner rejected while
\* that session is still Running, has given AlreadyRunning to its caller once
\* it has returned.
C1_SecondCallYieldsAlreadyRunning ==
    \A c \in Calls :
        ( /\ callKind[c] = "code"
          /\ callPc[c] = "returned"
          /\ SameSessionStillRunning(c)
          /\ callKind[busyAt[c]] = "code"
          /\ outcome[c] = "rejected" )
        => callResult[c] = "AlreadyRunning"

C3_TmpFileOutlivesContext ==
    \A c \in Calls :
        (callKind[c] = "code" /\ ctx[c] = "alive") => tmp[c] = "present"

\* The run launched by call c has entered Running (its context is or was
\* alive) or has already terminated (launch failure, or the spawned function
\* ended on an exception).
RunBegunOrTerminated(c) ==
    \/ ctx[c] \in {"alive", "exited"}
    \/ outcome[c] \in {"launch_failed", "rejected", "tmp_failed"}

\* C4: whenever execute_from_id or execute_from_code has returned, the run
\* launched by that very call has entered Running or has already terminated.
C4_ReturnMeansBegunOrTerminated ==
    \A c \in Calls : callPc[c] = "returned" => RunBegunOrTerminated(c)

\* C5: every call to execute_from_id or execute_from_code eventually returns.
C5_EveryCallReturns ==
    \A c \in Calls : (callPc[c] = "waiting") ~> (callPc[c] = "returned")

\* C16: the temporary file created for an execute_from_code call is
\* eventually deleted, whatever became of the run (success, failure, stop,
\* rejected or failed start): no temporary file stays for ever, and the file of
\* a run that has completed is eventually gone.
C16_TmpFileEventuallyDeleted ==
    \A c \in Calls :
        (tmp[c] = "present" \/ (callKind[c] = "code" /\ ctx[c] = "exited"))
            ~> (tmp[c] = "deleted")

\* C16 witness: the run of an execute_from_code call was ended by
\* stop_execution and its temporary file is deleted, beside a call whose start
\* was rejected and whose temporary file is deleted too.
C16_Witness ==
    \E c, d \in Calls :
        /\ callKind[c] = "code" /\ ctx[c] = "exited" /\ tmp[c] = "deleted"
        /\ runner.current = c /\ runner.state = "Stopped"
        /\ callKind[d] = "code" /\ outcome[d] = "rejected" /\ tmp[d] = "deleted"

\* C17: once stop_execution was called while a session is Running, eventually
\* execution_is_running is false with an exit status recorded that is not a
\* success, so that execution_is_success is false.
C17_StopThenStatus ==
    (stopReq /\ RunnerIsRunning)
        ~> ( /\ ~execution_is_running
             /\ runner.exit_status \notin {ExitNone, ExitOk}
             /\ ~execution_is_success )

\* C17 witness: the session of a call was stopped: it is no longer running and
\* its exit status is the one of a cancellation, after an earlier session had
\* ended on its own.
C17_Witness ==
    \E c, d \in Calls :
        /\ c # d
        /\ ctx[d] = "exited"
        /\ ctx[c] = "exited"
        /\ runner.current = c
        /\ runner.state = "Stopped"
        /\ runner.exit_status = ExitCancelled
        /\ ~execution_is_running
        /\ ~execution_is_success

C28_SuccessIffExitStatusZero ==
    /\ execution_is_success <=> (runner.exit_status = ExitOk)
    /\ runner.state = "Idle" => (runner.exit_status = ExitNone /\ ~execution_is_success)
    /\ runner.state \in {"Failed", "Stopped"} => ~execution_is_success
    /\ runner.state = "Succeeded" => execution_is_success

\* C28 witness: the launch of a call failed after an earlier run had ended
\* with status 0: execution_is_success has turned false.
C28_Witness ==
    \E c, d \in Calls :
        /\ ctx[c] = "exited"
        /\ outcome[d] = "launch_failed"
        /\ runner.current = d
        /\ runner.state = "Failed"
        /\ runner.exit_status = ExitFail
        /\ ~execution_is_success

\* C29: once execute_from_id has returned and the launch of its body has
\* failed (no script file of that id, or a body that cannot be launched), the
\* caller has been given NotFound or LaunchFailure, and the runner is not
\* Running for that call.
C29_LaunchFailureReachesCaller ==
    \A c \in Calls :
        (callKind[c] = "id" /\ callPc[c] = "returned" /\ outcome[c] = "launch_failed")
        => /\ callResult[c] \in {"NotFound", "LaunchFailure"}
           /\ ~(RunnerIsRunning /\ runner.current = c)

\* A run has ended: a context has terminated or a launch has failed.
SomeRunEnded == \E c \in Calls : ctx[c] = "exited" \/ outcome[c] = "launch_failed"

\* C30: the exit status is None as long as no run was started; once a run has
\* ended (natural end, crash, launch failure or stop) the exit status is set,
\* so the condition that ends the wait loop of __execute, running or exit
\* status set, is true in every state from then on.
C30_ExitStatusSetOnceARunEnded ==
    /\ (\A c \in Calls : ctx[c] = "none" /\ outcome[c] # "launch_failed")
           => runner.exit_status = ExitNone
    /\ SomeRunEnded => (runner.exit_status # ExitNone /\ HandshakeDone)
    /\ \A c \in Calls :
           (ctx[c] = "exited" /\ runner.current = c)
           => /\ runner.state \in {"Succeeded", "Failed", "Stopped"}
              /\ runner.exit_status \in {ExitOk, ExitFail, ExitCancelled}

\* C30 witness: the context of a call has crashed; nothing is running and the
\* exit status is the one of the crash.
C30_Witness ==
    \E c \in Calls :
        /\ ctx[c] = "exited"
        /\ outcome[c] = "accepted"
        /\ runner.current = c
        /\ runner.state = "Failed"
        /\ runner.exit_status = ExitFail
        /\ ~execution_is_running
        /\ HandshakeDone

(***************************************************************************)
(*                      PROPERTIES, STORAGE HALF                           *)
(***************************************************************************)
\* Script files whose id has no metadata record.
OrphanFiles == DOMAIN python_files \ DOMAIN database

\* The state right after __init__: reconciliation has run and no operation
\* has been started since.
JustConstructed == constructed /\ op.kind = "none"

\* C6: after the startup reconciliation, whatever the three stores held, the
\* ids of the metadata store are exactly the ids of the script file store.
C6_SyncMakesDbMatchScriptFiles ==
    JustConstructed => DOMAIN database = DOMAIN python_files

\* C6 witness: reconciliation has adopted a script file that had no record
\* (records found in the store never carry the description of an adoption).
C6_Witness ==
    /\ JustConstructed
    /\ \E id \in DOMAIN database :
           /\ database[id].description = UnknownDescription
           /\ database[id].name = id
           /\ id \in DOMAIN python_files

\* C7 as stated: at every intermediate step of create, update and delete no
\* script file lacks its metadata record.
C7_NoOrphanFileMidOperation ==
    (constructed /\ ~Settled) => OrphanFiles = {}

\* C7 amended: no step of create or of update adds a script file that lacks
\* its metadata record; the only step that does is the metadata delete of
\* delete, and only for the id being deleted, whose script file then lacks its
\* record until the file removal that follows.
C7_OnlyDeleteOrphansAFile ==
    [][ OrphanFiles' \subseteq
            (OrphanFiles \cup
             (IF InProgress("delete") /\ CurrentStep = "db_delete" THEN {op.id} ELSE {})) ]_vars

\* C7 witness: create stands between its metadata insert and its script write:
\* the divergence is a record that lacks its file.
C7_Witness ==
    /\ constructed
    /\ InProgress("create")
    /\ CurrentStep = "py_create"
    /\ op.id \in DOMAIN database
    /\ op.id \notin DOMAIN python_files
    /\ OrphanFiles = {}

\* C8: after construction and after every completed create, update or delete
\* the cache has exactly the ids of the metadata store and holds for each id
\* what get(id) returns.
C8_CacheMatchesStores ==
    (constructed /\ Settled) =>
        /\ DOMAIN programs = DOMAIN database
        /\ \A id \in DOMAIN programs :
               id \in DOMAIN database
               => programs[id] = Get(database, python_files, blockly_files, id)

\* C8 witness: an update that changed the name and the body of a cached
\* program has completed, with another program in the cache beside it.
C8_Witness ==
    /\ constructed
    /\ Completed("update")
    /\ Cardinality(DOMAIN programs) = 2
    /\ programs[op.id].name = op.name
    /\ programs[op.id].python_code = op.python_code
    /\ \E other \in DOMAIN programs \ {op.id} :
           programs[other].name # op.name /\ programs[other].python_code # op.python_code

\* C9: after construction and after every completed create, update or delete,
\* has_blockly of every record is true exactly when a visual file of that id
\* exists.
C9_HasBlocklyIffVisualFile ==
    (constructed /\ Settled) =>
        \A id \in DOMAIN database :
            database[id].has_blockly <=> id \in DOMAIN blockly_files

\* C10: after a completed delete(id) nothing is stored for id, and the
\* removals were issued in the order metadata, script file, visual file.
C10_DeleteRemovesEverything ==
    Completed("delete") =>
        /\ op.id \notin DOMAIN database
        /\ op.id \notin DOMAIN python_files
        /\ op.id \notin DOMAIN blockly_files
        /\ op.id \notin DOMAIN programs
        /\ op.log \in {<<"db_delete", "py_remove">>, <<"db_delete", "py_remove", "bl_remove">>}

\* C11: once create(name, description, script body) without a visual body has
\* returned, get of the returned id yields a record with that id, that name,
\* that description and that script body, has_blockly false and no visual body.
C11_CreateThenGetRoundTrip ==
    (Completed("create") /\ op.blockly_code = NoBlockly) =>
        /\ GetError(database, python_files, blockly_files, op.id) = "none"
        /\ Get(database, python_files, blockly_files, op.id) =
               [id |-> op.id, name |-> op.name, description |-> op.description,
                has_blockly |-> FALSE, python_code |-> op.python_code,
                blockly_code |-> NoBlockly]

\* C11 witness: such a create has returned beside a program that has a visual
\* body and another script body.
C11_Witness ==
    /\ Completed("create")
    /\ op.blockly_code = NoBlockly
    /\ op.python_code \in PythonCodes
    /\ \E other \in DOMAIN database \ {op.id} :
           /\ database[other].has_blockly
           /\ other \in DOMAIN blockly_files
           /\ python_files[other] # op.python_code

\* C12: exists(id) is true in the state in which create has returned id, and
\* false in the state in which delete(id) has returned.
C12_ExistsAfterCreateNotAfterDelete ==
    /\ Completed("create") => Exists(database, python_files, op.id)
    /\ Completed("delete") => ~Exists(database, python_files, op.id)

\* C12 witness: delete of a program that had its record has returned, and
\* another program still exists.
C12_Witness ==
    /\ Completed("delete")
    /\ op.known
    /\ ~Exists(database, python_files, op.id)
    /\ \E other \in ProgramIds \ {op.id} : Exists(database, python_files, other)

\* __init__ runs on a manager that was just constructed: the reconciliation
\* runs a second time with no operation in between.
SecondConstruct == JustConstructed /\ constructed' /\ op'.kind = "none"

\* C13: whatever the three stores held, the reconciliation run directly after
\* a first one performs no repair (no record removed, no flag cleared, no file
\* adopted) and leaves the three stores as they were.
C13_SecondSyncRepairsNothing ==
    [][ SecondConstruct =>
            /\ warnings' = {}
            /\ database' = database
            /\ python_files' = python_files
            /\ blockly_files' = blockly_files ]_vars

\* C13 witness: a reconciliation has run and logged nothing on stores in
\* which an earlier reconciliation had adopted a script file.
C13_Witness ==
    /\ JustConstructed
    /\ warnings = {}
    /\ \E id \in DOMAIN database :
           /\ database[id].description = UnknownDescription
           /\ database[id].name = id

\* A step of __init__: the only step after which no operation is on record.
ConstructStep == (~constructed \/ Settled) /\ constructed' /\ op'.kind = "none"

\* C14: for every script file whose id has no record when the reconciliation
\* runs, the store holds afterwards the record of that id with name = id,
\* description "Unknown program" and has_blockly true exactly when a visual
\* file of that id exists.
C14_OrphanFileIsAdopted ==
    [][ ConstructStep =>
            \A id \in DOMAIN python_files \ DOMAIN database :
                /\ id \in DOMAIN database'
                /\ database'[id] =
                       DbRecord(id, UnknownDescription, id \in DOMAIN blockly_files) ]_vars

\* C14 witness: the reconciliation that just ran adopted two script files, one
\* with a visual file of its id and one without.
C14_Witness ==
    /\ JustConstructed
    /\ \E a, b \in DOMAIN database :
           /\ {<<"adopted", a>>, <<"adopted", b>>} \subseteq warnings
           /\ database[a].has_blockly /\ a \in DOMAIN blockly_files
           /\ ~database[b].has_blockly /\ b \notin DOMAIN blockly_files

\* C15: a record with has_blockly true whose script file exists and whose
\* visual file is missing when the reconciliation runs is that same record
\* afterwards with has_blockly false: the record is still there with its name
\* and description, and its script file is untouched.
C15_DanglingFlagIsCleared ==
    [][ ConstructStep =>
            \A id \in DOMAIN database :
                ( /\ database[id].has_blockly
                  /\ id \in DOMAIN python_files
                  /\ id \notin DOMAIN blockly_files )
                => /\ id \in DOMAIN database'
                   /\ database'[id] = [database[id] EXCEPT !.has_blockly = FALSE]
                   /\ id \in DOMAIN python_files'
                   /\ python_files'[id] = python_files[id] ]_vars

\* C15 witness: the reconciliation that just ran cleared the flag of a record
\* and left alone a record whose visual file exists.
C15_Witness ==
    /\ JustConstructed
    /\ \E a, b \in DOMAIN database :
           /\ <<"flag_cleared", a>> \in warnings
           /\ ~database[a].has_blockly
           /\ a \in DOMAIN python_files
           /\ database[a].description \in Descriptions
           /\ database[b].has_blockly
           /\ b \in DOMAIN blockly_files

\* The three stores and the cache are left as they are by the step.
StoresAndCacheUnchanged ==
    /\ database' = database
    /\ python_files' = python_files
    /\ blockly_files' = blockly_files
    /\ programs' = programs

\* C18: update_program of an id that has no metadata record changes nothing
\* at any of its steps (no record, no script file, no visual file, no cache
\* entry is created or modified) and ends on an error.
C18_UpdateUnknownChangesNothing ==
    [][ (InProgress("update") /\ ~op.known) =>
            /\ StoresAndCacheUnchanged
            /\ Settled' => op'.error # "none" ]_vars

\* C19: delete_program of an id that has no metadata record leaves the
\* metadata store, both file stores and the cache unchanged at every one of
\* its steps and ends on an error.
C19_DeleteUnknownChangesNothing ==
    [][ (InProgress("delete") /\ ~op.known) =>
            /\ StoresAndCacheUnchanged
            /\ Settled' => op'.error # "none" ]_vars

\* C20: get of an id that has no metadata record ends on NotFound, whether or
\* not a script file of that id exists, and no get changes a store or the
\* cache.
C20_GetUnknownIsNotFound ==
    [][ op'.kind = "get" =>
            /\ StoresAndCacheUnchanged
            /\ ~DbExists(database, op'.id) => op'.error = "NotFound" ]_vars

\* C20 witness: get has ended on NotFound for an id that has a script file
\* and no record.
C20_Witness ==
    /\ op.kind = "get"
    /\ op.error = "NotFound"
    /\ ~DbExists(database, op.id)
    /\ FileExists(python_files, op.id)

\* C21: in every state in which the manager is constructed and no call is in
\* progress, get_all does not fail and returns one merged record for each id
\* of the metadata store, equal to what get(id) returns, and nothing else.
C21_ListIsOneGetPerRecord ==
    (constructed /\ Settled /\ op.error = "none") =>
        LET listed == GetAll(database, python_files, blockly_files) IN
        /\ GetAllError(database, python_files, blockly_files) = "none"
        /\ DOMAIN listed = DOMAIN database
        /\ \A id \in DOMAIN database :
               /\ GetError(database, python_files, blockly_files, id) = "none"
               /\ listed[id] = Get(database, python_files, blockly_files, id)
               /\ listed[id].id = id

\* C21 witness: an update has returned with two programs to list, one with a
\* visual body and one without.
C21_Witness ==
    /\ constructed
    /\ Completed("update")
    /\ \E a, b \in DOMAIN database :
           /\ database[a].has_blockly
           /\ ~database[b].has_blockly
           /\ DOMAIN GetAll(database, python_files, blockly_files) = {a, b}

\* C22: exists(id) answers true exactly when the metadata store has a record
\* of id and the script file store has a file of id (false when only one of
\* the two has it), and it changes no store and no cache entry.
C22_ExistsIsRecordAndFile ==
    [][ op'.kind = "exists" =>
            /\ StoresAndCacheUnchanged
            /\ op'.answer <=> (op'.id \in DOMAIN database /\ op'.id \in DOMAIN python_files) ]_vars

\* C22 witness: exists has answered false for an id that has a record and no
\* script file, while another id has a script file and no record.
C22_Witness ==
    /\ op.kind = "exists"
    /\ ~op.answer
    /\ op.id \in DOMAIN database
    /\ op.id \notin DOMAIN python_files
    /\ \E other \in DOMAIN python_files : other \notin DOMAIN database

\* create_program has ended on the failure of one of its file writes.
FailedCreate == op.kind = "create" /\ op.error = "StorageFailure"

\* C23: when the script write or the visual write of create fails after the
\* metadata insert, the call ends on that error with the record in place and
\* no cache entry for the id; the next reconciliation removes a record left
\* without a script file, and clears has_blockly of a record left without its
\* visual file, which is then cached as get returns it.
C23_FailedCreateLeavesRecordUntilSync ==
    [][ /\ FailedCreate' =>
               /\ op'.id \in DOMAIN database'
               /\ op'.id \notin DOMAIN programs'
        /\ ConstructStep =>
               \A id \in DOMAIN database \ DOMAIN programs :
                   IF id \in DOMAIN python_files
                   THEN /\ id \in DOMAIN database'
                        /\ database'[id].has_blockly =>  id \in DOMAIN blockly_files
                        /\ id \in DOMAIN programs'
                        /\ programs'[id] = Get(database', python_files, blockly_files, id)
                   ELSE /\ id \notin DOMAIN database'
                        /\ id \notin DOMAIN programs' ]_vars

\* C23 witness: the visual write of a create has failed: the record says
\* has_blockly, the script file is written, the visual file and the cache
\* entry are missing.
C23_Witness ==
    /\ FailedCreate
    /\ op.id \in DOMAIN database
    /\ database[op.id].has_blockly
    /\ op.id \in DOMAIN python_files
    /\ op.id \notin DOMAIN blockly_files
    /\ op.id \notin DOMAIN programs

\* What a map holds for the ids other than id.
Others(f, id) == [x \in DOMAIN f \ {id} |-> f[x]]

\* The step changes nothing that is stored or cached for an id other than id.
OthersUnchanged(id) ==
    /\ Others(database', id) = Others(database, id)
    /\ Others(python_files', id) = Others(python_files, id)
    /\ Others(blockly_files', id) = Others(blockly_files, id)
    /\ Others(programs', id) = Others(programs, id)

\* C24: no step of update(id, ...) of an existing program changes the record,
\* the files or the cache entry of another program, and once the update has
\* returned get(id) yields the same id with the new name, description and
\* script body, has_blockly true exactly when a visual body was given, and
\* that visual body (empty when none was given).
C24_UpdateThenGetRoundTrip ==
    [][ (InProgress("update") /\ op.known) =>
            /\ OthersUnchanged(op.id)
            /\ op'.id = op.id
            /\ (Settled' /\ op'.error = "none") =>
                   /\ GetError(database', python_files', blockly_files', op.id) = "none"
                   /\ Get(database', python_files', blockly_files', op.id) =
                          [id |-> op.id, name |-> op.name, description |-> op.description,
                           has_blockly |-> op.blockly_code # NoBlockly,
                           python_code |-> op.python_code,
                           blockly_code |-> op.blockly_code] ]_vars

\* C24 witness: an update without a visual body has returned for a program
\* whose earlier visual file is still stored, beside another program.
C24_Witness ==
    /\ Completed("update")
    /\ op.blockly_code = NoBlockly
    /\ op.id \in DOMAIN blockly_files
    /\ Get(database, python_files, blockly_files, op.id).blockly_code = NoBlockly
    /\ DOMAIN database \ {op.id} # {}

\* C25: once create with a visual body has returned, get of the new id yields
\* has_blockly true and that visual body; and whenever no call is in progress,
\* get of any program yields a visual body only if it yields has_blockly true.
C25_VisualBodyOnlyWithHasBlockly ==
    /\ (Completed("create") /\ op.blockly_code # NoBlockly) =>
           LET created == Get(database, python_files, blockly_files, op.id) IN
           /\ GetError(database, python_files, blockly_files, op.id) = "none"
           /\ created.has_blockly
           /\ created.blockly_code = op.blockly_code
    /\ (constructed /\ Settled) =>
           \A id \in DOMAIN database :
               Get(database, python_files, blockly_files, id).blockly_code # NoBlockly
               => Get(database, python_files, blockly_files, id).has_blockly

\* C25 witness: a create with a visual body has returned beside a program that
\* has no visual body any more although its visual file is still stored.
C25_Witness ==
    /\ Completed("create")
    /\ op.blockly_code \in BlocklyCodes
    /\ Get(database, python_files, blockly_files, op.id).blockly_code = op.blockly_code
    /\ \E other \in DOMAIN database \ {op.id} :
           /\ ~database[other].has_blockly
           /\ other \in DOMAIN blockly_files

\* C26: no step of create, update, delete, get, get_all or exists changes the
\* runner (state, exit status, output, session), the execution contexts or
\* the pending stop request; a delete of the program a running session was
\* started from is such a step.
C26_StoreCallsLeaveSessionAlone ==
    [][ storeVars' # storeVars =>
            /\ runner' = runner
            /\ ctx' = ctx
            /\ stopReq' = stopReq ]_vars

\* C26 witness: delete of a program has returned while the session that
\* execute_from_id started from that program is Running, with no stop pending.
C26_Witness ==
    /\ Completed("delete")
    /\ op.known
    /\ op.id \notin DOMAIN python_files
    /\ callKind[SessionCall] = "id"
    /\ callProgram[SessionCall] = op.id
    /\ ctx[SessionCall] = "alive"
    /\ RunnerIsRunning
    /\ runner.current = SessionCall
    /\ ~stopReq

(***************************************************************************)
(*               PROPERTIES, REJECTED AND FRAMED EXECUTIONS                *)
(***************************************************************************)
\* The step is one of call c: of its caller or of the thread spawned for it.
StepOfCall(c) ==
    \/ callPc'[c] # callPc[c]
    \/ thr'[c] # thr[c]
    \/ tmp'[c] # tmp[c]
    \/ outcome'[c] # outcome[c]

\* C31: no step of an execute_from_code call that was issued while a session
\* is Running and whose start is rejected changes the runner (running flag,
\* exit status, output), an execution context, the pending stop request or the
\* temporary file of another call; and once the thread of the rejected call has
\* ended, the temporary file created for its body is deleted.
C31_RejectedCallHasNoLastingEffect ==
    [][ \A c \in Calls :
            ( /\ callKind'[c] = "code"
              /\ busyAt'[c] # NoCall
              /\ outcome'[c] \in {"none", "rejected"}
              /\ StepOfCall(c) )
            => /\ runner' = runner
               /\ ctx' = ctx
               /\ stopReq' = stopReq
               /\ \A d \in Calls \ {c} : tmp'[d] = tmp[d]
               /\ (outcome'[c] = "rejected" /\ thr'[c] = "done") => tmp'[c] = "deleted" ]_vars

\* C31 witness: a rejected execute_from_code call has returned and its thread
\* has ended with its temporary file deleted, while the session that was
\* Running when it was issued is still Running with its output and with its
\* own temporary file in place.
C31_Witness ==
    \E c, d \in Calls :
        /\ c # d
        /\ callKind[c] = "code" /\ callKind[d] = "code"
        /\ busyAt[c] = d
        /\ outcome[c] = "rejected"
        /\ thr[c] = "done"
        /\ callPc[c] = "returned"
        /\ tmp[c] = "deleted"
        /\ RunnerIsRunning /\ runner.current = d
        /\ ctx[d] = "alive"
        /\ runner.output = MaxOutput
        /\ tmp[d] = "present"

(***************************************************************************)
(*                   PROPERTIES, CONCURRENT CALLERS                        *)
(***************************************************************************)
\* C32: create, update, delete and get are mutually exclusive: at no time are
\* two of these calls both between their first and their last store call, so
\* no step of one call is taken between two steps of another.
C32_CrudCallsAreMutuallyExclusive ==
    ~(constructed /\ ~Settled /\ SuspendedInProgress)

(***************************************************************************)
(*                  PROPERTIES, CONSTRUCTION AND READS                     *)
(***************************************************************************)
\* C33: the reconciliation creates, deletes and modifies no file of the
\* script store or of the visual store, and it leaves as it is every record
\* whose script file exists and whose has_blockly is false or matched by a
\* visual file.
C33_SyncChangesOnlyWhatRepairsRequire ==
    [][ ConstructStep =>
            /\ python_files' = python_files
            /\ blockly_files' = blockly_files
            /\ \A id \in DOMAIN database :
                   ( /\ id \in DOMAIN python_files
                     /\ (~database[id].has_blockly \/ id \in DOMAIN blockly_files) )
                   => /\ id \in DOMAIN database'
                      /\ database'[id] = database[id] ]_vars

\* C33 witness: the reconciliation that just ran removed a record whose
\* visual file is still stored, and a record it found with its script file
\* and its visual file is there with has_blockly true.
C33_Witness ==
    /\ JustConstructed
    /\ \E a, b \in ProgramIds :
           /\ <<"removed", a>> \in warnings
           /\ a \notin DOMAIN database
           /\ a \in DOMAIN blockly_files
           /\ b \in DOMAIN database
           /\ <<"adopted", b>> \notin warnings
           /\ database[b].has_blockly
           /\ b \in DOMAIN python_files
           /\ b \in DOMAIN blockly_files

\* C34: whatever the metadata store and the two file stores hold when
\* __init__ runs, the reconciliation only deletes and updates records that
\* exist and only inserts ids that have no record, get_all of line 39 does not
\* raise, the cache holds every record, and get succeeds afterwards for every
\* id of the metadata store.
C34_ConstructionSelfHealsWithoutRaising ==
    [][ ConstructStep =>
            /\ \A w \in warnings' :
                   IF w[1] = "adopted"
                   THEN w[2] \notin DOMAIN database
                   ELSE w[2] \in DOMAIN database
            /\ GetAllError(database', python_files', blockly_files') = "none"
            /\ DOMAIN programs' = DOMAIN database'
            /\ op'.error = "none"
            /\ \A id \in DOMAIN database' :
                   GetError(database', python_files', blockly_files', id) = "none" ]_vars

\* C34 witness: the reconciliation that just ran removed a record that had no
\* script file and cleared the flag of a record that had no visual file; get
\* of the repaired record succeeds and the cache holds it.
C34_Witness ==
    /\ JustConstructed
    /\ \E a, b \in ProgramIds :
           /\ <<"removed", a>> \in warnings
           /\ <<"flag_cleared", b>> \in warnings
           /\ GetError(database, python_files, blockly_files, a) = "NotFound"
           /\ GetError(database, python_files, blockly_files, b) = "none"
           /\ b \in DOMAIN programs
           /\ programs[b].blockly_code = NoBlockly

\* C35: once create has failed at the write of its script file, leaving its
\* record without a file, get_all still succeeds and get still succeeds for
\* every program the manager held before.
C35_FailedCreateKeepsReadsWorking ==
    (FailedCreate /\ op.id \notin DOMAIN python_files) =>
        /\ GetAllError(database, python_files, blockly_files) = "none"
        /\ \A id \in DOMAIN programs :
               GetError(database, python_files, blockly_files, id) = "none"

(***************************************************************************)
(*                  PROPERTIES, EXECUTION OF A STORED PROGRAM              *)
(***************************************************************************)
\* C36: no step of an execute_from_id call (its caller, its thread, the
\* runner's start and the context it launches) creates a temporary file,
\* writes to the script store or to the visual store, or changes the metadata
\* store or the cache; the runner is started on the script file of the id the
\* call was given.
C36_ExecuteFromIdTouchesNoStore ==
    [][ \A c \in Calls :
            (callKind'[c] = "id" /\ (StepOfCall(c) \/ ctx'[c] # ctx[c]))
            => /\ tmp' = tmp
               /\ tmp'[c] = "none"
               /\ StoresAndCacheUnchanged
               /\ callKind[c] = "id" => callProgram'[c] = callProgram[c] ]_vars

\* C36 witness: the session started by execute_from_id from a stored program
\* is Running and the call has returned; the script file and the cache entry
\* of that program are in place and there is no temporary file.
C36_Witness ==
    /\ callKind[SessionCall] = "id"
    /\ callPc[SessionCall] = "returned"
    /\ callProgram[SessionCall] \in DOMAIN python_files
    /\ callProgram[SessionCall] \in DOMAIN programs
    /\ python_files[callProgram[SessionCall]] = programs[callProgram[SessionCall]].python_code
    /\ outcome[SessionCall] = "accepted"
    /\ ctx[SessionCall] = "alive"
    /\ RunnerIsRunning
    /\ runner.current = SessionCall
    /\ \A c \in Calls : tmp[c] = "none"

(***************************************************************************)
(*                   PROPERTIES, NIRYO_ROBOT_REPORTS                       *)
(***************************************************************************)
\* The positions of the entries of a log list that have the message.
EntriesOf(logs, msg) == {i \in 1..Len(logs) : logs[i].msg = msg}

\* C37: on a ReportHandler that started empty, after every add_log(msg, type,
\* date) the log list holds at most one entry for each message; the entry of
\* msg has got exactly that one date at the end of its 'occurred' list (the
\* entry is created with that date and that type when msg occurs for the first
\* time), it keeps the type of the first occurrence, and the entries of the
\* other messages are where and what they were.
C37_AddLogMergesByMessage ==
    [][ reportHandler' # reportHandler =>
            LET old == reportHandler.logs
                new == reportHandler'.logs
                a == reportHandler'.added
            IN /\ \A m \in LogMsgs : Cardinality(EntriesOf(new, m)) <= 1
               /\ Cardinality(EntriesOf(new, a.msg)) = 1
               /\ \A i \in EntriesOf(new, a.msg) :
                      IF EntriesOf(old, a.msg) = {}
                      THEN /\ new[i].occurred = <<a.date>>
                           /\ new[i].type = a.type
                           /\ Len(new) = Len(old) + 1
                      ELSE /\ i \in EntriesOf(old, a.msg)
                           /\ new[i].occurred = Append(old[i].occurred, a.date)
                           /\ new[i].type = old[i].type
                           /\ Len(new) = Len(old)
               /\ \A j \in 1..Len(old) : old[j].msg # a.msg => new[j] = old[j] ]_vars

\* C37 witness: a message was logged a second time with another type than
\* the first time, after another message: its entry has two dates and the
\* first type, and the other entry has its one date.
C37_Witness ==
    /\ Len(reportHandler.logs) = 2
    /\ reportHandler.logs[1].msg = reportHandler.added.msg
    /\ reportHandler.logs[1].type # reportHandler.added.type
    /\ Len(reportHandler.logs[1].occurred) = 2
    /\ reportHandler.logs[1].occurred[2] = reportHandler.added.date
    /\ reportHandler.logs[2].msg # reportHandler.added.msg
    /\ Len(reportHandler.logs[2].occurred) = 1

\* Every micro service keeps headers that hold the identifier and the API
\* key most recently set.
ServicesUseCredentialsSet(c) ==
    \A name \in ServiceNames : c.heap[c.microservices[name].headers] = c.set

\* C38: after every set_identifier, set_api_key and set_sharing_allowed the
\* headers of every micro service (authentification and the four report
\* services, also those set_sharing_allowed has made anew) hold the identifier
\* and the API key most recently set, and every request is posted with them;
\* while sharing is not allowed, send of each of the four report services
\* returns True and posts no request.
C38_CredentialsSurviveSharingToggles ==
    [][ /\ ServicesUseCredentialsSet(cloud)
        /\ ServicesUseCredentialsSet(cloud')
        /\ cloud'.posted # cloud.posted => cloud'.sent.headers = cloud.set
        /\ ~cloud.sharing_allowed =>
               /\ \A name \in ReportServices :
                      cloud.microservices[name].class = "FakeReportMS"
               /\ cloud'.posted # cloud.posted => cloud'.sent.service = "authentification"
               /\ (cloud'.sent # cloud.sent /\ cloud'.sent.service \in ReportServices)
                      => cloud'.sent.result = "True" /\ cloud'.posted = cloud.posted ]_vars

\* C38 witness: send has returned True while sharing was not allowed, and
\* sharing is allowed now: the four report services were made anew, and they
\* and authentification keep the identifier and the API key set by
\* set_identifier and set_api_key.
C38_Witness ==
    /\ cloud.sharing_allowed
    /\ cloud.sent.service \in ReportServices
    /\ cloud.sent.result = "True"
    /\ cloud.posted = 0
    /\ cloud.set = [identifier |-> "id2", apiKey |-> "key2"]
    /\ cloud.microservices["daily_reports"].class = "DailyReportMS"
    /\ \A name \in ServiceNames :
           cloud.heap[cloud.microservices[name].headers] =
               [identifier |-> "id2", apiKey |-> "key2"]

====
